---------------------------- MODULE Spec2Model ----------------------------
(***************************************************************************)
(* Model of the rules_mcp package: the in-memory Registry (registry.py),   *)
(* the MCP tool handlers that sit on top of it (server.py) and the         *)
(* ensure_repo boundary (repo.py).                                         *)
(*                                                                         *)
(* Python strings are sequences of one-character strings, so that          *)
(* lower(), split(), substring tests and lexical ordering are computed.    *)
(* An Optional value is a sequence of length 0 (None) or 1.  A dict is a   *)
(* record; dict.get(k, d) is Get(e, k, d).                                 *)
(***************************************************************************)
EXTENDS Integers, Sequences, FiniteSets, TLC

VARIABLES
    entries,      \* Registry.entries
    _repo_path,   \* server._repo_path : Optional path
    _last_pull,   \* server._last_pull
    now,          \* the value time.monotonic() returns
    res,          \* the outcome of the last operation
    ld,           \* a load in progress on another thread
    obs           \* what the last concurrent reader saw in Registry.entries

vars == <<entries, _repo_path, _last_pull, now, res, ld, obs>>

-----------------------------------------------------------------------------
(* Bounds *)

MaxLines == 2       \* lines of a generated register.jsonl
MaxRecs == 2        \* records of a generated registry
MaxNow == 7300      \* the clock stops advancing here
BootAge == 60       \* what time.monotonic() reads when the process starts

-----------------------------------------------------------------------------
(* Python values *)

None == <<>>
Some(x) == <<x>>

Get(e, k, d) == IF k \in DOMAIN e THEN e[k] ELSE d

Letters ==
    <<"a","b","c","d","e","f","g","h","i","j","k","l","m",
      "n","o","p","q","r","s","t","u","v","w","x","y","z">>

Capitals ==
    <<"A","B","C","D","E","F","G","H","I","J","K","L","M",
      "N","O","P","Q","R","S","T","U","V","W","X","Y","Z">>

IndexIn(c, s) == IF \E i \in 1..Len(s) : s[i] = c
                 THEN CHOOSE i \in 1..Len(s) : s[i] = c
                 ELSE 0

Punctuation == {" ", "-", ".", "/"}
Chars == {Letters[i] : i \in 1..26} \cup {Capitals[i] : i \in 1..26} \cup Punctuation

\* ord(c): the code point Python compares characters by
Ord ==
    [c \in Chars |->
        IF IndexIn(c, Letters) > 0 THEN 96 + IndexIn(c, Letters)
        ELSE IF IndexIn(c, Capitals) > 0 THEN 64 + IndexIn(c, Capitals)
        ELSE IF c = " " THEN 32
        ELSE IF c = "-" THEN 45
        ELSE IF c = "." THEN 46
        ELSE 47]

LowerChar ==
    [c \in Chars |->
        IF IndexIn(c, Capitals) > 0 THEN Letters[IndexIn(c, Capitals)] ELSE c]

\* str.lower()
Lower(s) == [i \in 1..Len(s) |-> LowerChar[s[i]]]

\* a < b on str: the first differing character decides, else the length
RECURSIVE LessFrom(_, _, _)
LessFrom(a, b, i) ==
    IF i > Len(a) THEN i <= Len(b)
    ELSE IF i > Len(b) THEN FALSE
    ELSE IF a[i] = b[i] THEN LessFrom(a, b, i + 1)
    ELSE Ord[a[i]] < Ord[b[i]]

StrLess(a, b) == LessFrom(a, b, 1)

\* a in b on str
Contains(a, b) ==
    \E k \in 0..(Len(b) - Len(a)) : \A j \in 1..Len(a) : b[k + j] = a[j]

\* str.split(): the maximal runs of non-whitespace characters
RECURSIVE SplitFrom(_, _, _)
SplitFrom(s, i, cur) ==
    IF i > Len(s) THEN (IF cur = <<>> THEN <<>> ELSE <<cur>>)
    ELSE IF s[i] = " "
         THEN (IF cur = <<>> THEN <<>> ELSE <<cur>>) \o SplitFrom(s, i + 1, <<>>)
         ELSE SplitFrom(s, i + 1, Append(cur, s[i]))

Split(s) == SplitFrom(s, 1, <<>>)

\* "/" in s, and s.split("/")[0]
HasSlash(s) == IndexIn("/", s) > 0
BeforeSlash(s) == SubSeq(s, 1, IndexIn("/", s) - 1)

\* seq[:n] with Python's slice semantics (a negative n counts from the end)
SliceTo(s, n) ==
    IF n >= 0 THEN SubSeq(s, 1, IF n < Len(s) THEN n ELSE Len(s))
    ELSE SubSeq(s, 1, IF Len(s) + n > 0 THEN Len(s) + n ELSE 0)

Range(s) == {s[i] : i \in 1..Len(s)}

RECURSIVE SeqsUpTo(_, _)
SeqsUpTo(S, n) ==
    IF n = 0 THEN {<<>>}
    ELSE LET shorter == SeqsUpTo(S, n - 1)
         IN  shorter \cup {Append(s, x) : s \in shorter, x \in S}

-----------------------------------------------------------------------------
(* The strings and register entries the model draws its inputs from *)

s_global == <<"g","l","o","b","a","l">>
s_project_files == <<"p","r","o","j","e","c","t","-","f","i","l","e","s">>
s_python == <<"p","y","t","h","o","n">>
s_Python == <<"P","y","t","h","o","n">>
s_rust == <<"r","u","s","t">>
s_io == <<"i","o">>
s_ioerror == <<"i","o","e","r","r","o","r">>
s_md == <<".","m","d">>

f_gx == s_global \o <<"/","x">> \o s_md
f_pa == s_python \o <<"/","a">> \o s_md
f_pb == s_python \o <<"/","b">> \o s_md
f_pc == s_python \o <<"/","c">> \o s_md
f_naming == s_python \o <<"/","n","a","m","i","n","g">> \o s_md
f_rs == s_rust \o <<"/","o","w","n">> \o s_md
f_pf == s_project_files \o <<"/","s","e","t","u","p">> \o s_md
f_misc == <<"m","i","s","c">> \o s_md

Doc_gx == [file |-> f_gx, category |-> s_global, layer |-> 1]

Doc_pa == [file |-> f_pa, category |-> s_python, layer |-> 1,
           tags |-> <<s_io>>]

Doc_pb == [file |-> f_pb, category |-> s_python, layer |-> 3,
           tags |-> <<s_ioerror>>]

Doc_pc == [file |-> f_pc, category |-> s_Python, layer |-> 4,
           title |-> <<"I","O"," ","E","r","r","o","r","s">>,
           subtitle |-> <<"r","a","i","s","e">>,
           concepts |-> << <<"e","r","r","o","r","s">> >>,
           tags |-> <<s_ioerror>>,
           rules |-> <<"RULE-1", "RULE-2", "RULE-3">>,
           banned |-> <<"BANNED-1">>,
           has_examples |-> TRUE,
           refs |-> << <<"a">> \o s_md >>,
           edges |-> [requires |-> <<f_pa, f_naming>>,
                      related |-> <<f_gx>>]]

Doc_rs == [file |-> f_rs, category |-> s_rust, layer |-> 3,
           title |-> <<"O","w","n","e","r","s","h","i","p">>,
           rules |-> <<"RULE-1">>,
           refs |-> <<f_gx>>,
           edges |-> [requires |-> <<>>]]

Doc_pf == [file |-> f_pf, category |-> s_project_files, layer |-> 2,
           keywords |-> <<s_io>>,
           banned |-> <<"BANNED-1", "BANNED-2">>]

Doc_nc == [file |-> f_misc, title |-> <<"M","i","s","c"," ","I","O">>]

Docs == {Doc_gx, Doc_pa, Doc_pb, Doc_pc, Doc_rs, Doc_pf, Doc_nc}

-----------------------------------------------------------------------------
(* register.jsonl: a file is a sequence of lines, a line a sequence of     *)
(* pieces: a whitespace character, the JSON text of one object, or text    *)
(* that is not JSON.                                                       *)

Ws(c) == [t |-> "ws", c |-> c]
Obj(d) == [t |-> "obj", v |-> d]
Junk == [t |-> "junk"]

\* the entries generated files are written from
LoadDocs == {Doc_pa, Doc_pb}

Lines ==
    {<<Obj(d), Ws("\n")>> : d \in LoadDocs}
    \cup { <<Ws("\n")>>,                                \* a blank line
           <<Ws(" "), Ws("\n")>>,                       \* whitespace only
           <<Ws(" "), Obj(Doc_pa), Ws(" "), Ws("\n")>>, \* padded object
           <<Junk, Ws("\n")>>,                          \* not JSON
           <<Obj(Doc_pb), Junk, Ws("\n")>> }            \* trailing garbage

LineOf(d) == <<Obj(d), Ws("\n")>>

\* the learning-path example as a file, and a file with a malformed third line
ExampleSource == <<LineOf(Doc_pa), <<Ws("\n")>>, LineOf(Doc_pb), LineOf(Doc_gx)>>
BrokenSource == <<LineOf(Doc_pa), LineOf(Doc_pb), <<Junk, Ws("\n")>>, LineOf(Doc_gx)>>

Sources == SeqsUpTo(Lines, MaxLines) \cup {ExampleSource, BrokenSource}

-----------------------------------------------------------------------------
(* Registry.load *)

\* str.strip()
RECURSIVE LStrip(_)
LStrip(line) ==
    IF line # <<>> /\ Head(line).t = "ws" THEN LStrip(Tail(line)) ELSE line

RECURSIVE RStrip(_)
RStrip(line) ==
    IF line # <<>> /\ line[Len(line)].t = "ws"
    THEN RStrip(SubSeq(line, 1, Len(line) - 1))
    ELSE line

Strip(line) == RStrip(LStrip(line))

\* json.loads: one JSON value and nothing else, or JSONDecodeError
JsonLoads(text) ==
    IF Len(text) = 1 /\ text[1].t = "obj"
    THEN [ok |-> TRUE, v |-> text[1].v]
    ELSE [ok |-> FALSE]

\* self.entries = []
NoReset(old) == old
ResetEntries(old) == <<>>

\* the body of the for loop, for the line at position i
LoadLine(acc, line) ==
    LET text == Strip(line)
    IN  IF text = <<>> THEN [entries |-> acc, raised |-> FALSE]
        ELSE LET j == JsonLoads(text)
             IN  IF j.ok THEN [entries |-> Append(acc, j.v), raised |-> FALSE]
                 ELSE [entries |-> acc, raised |-> TRUE]

\* the for loop from line i on; err is the line that raised, 0 when none did
RECURSIVE LoadLoop(_, _, _)
LoadLoop(lines, i, acc) ==
    IF i > Len(lines) THEN [entries |-> acc, err |-> 0]
    ELSE LET r == LoadLine(acc, lines[i])
         IN  IF r.raised THEN [entries |-> r.entries, err |-> i]
             ELSE LoadLoop(lines, i + 1, r.entries)

\* Registry.load as one call: what self.entries holds when it returns or raises
LoadRun(old, lines) == LoadLoop(lines, 1, ResetEntries(old))

Load(src) ==
    LET r == LoadRun(entries, src)
    IN  /\ entries' = r.entries
        /\ res' = [op |-> "load", source |-> src, prior |-> Len(entries),
                   outcome |-> IF r.err = 0 THEN "ok" ELSE "JSONDecodeError",
                   line |-> r.err]
        /\ UNCHANGED <<_repo_path, _last_pull, now, ld, obs>>

\* jsonl_path.open() raises: register.jsonl does not exist
LoadMissing ==
    /\ entries' = ResetEntries(entries)
    /\ res' = [op |-> "load", source |-> None, prior |-> Len(entries),
               outcome |-> "FileNotFoundError", line |-> 0]
    /\ UNCHANGED <<_repo_path, _last_pull, now, ld, obs>>

-----------------------------------------------------------------------------
(* Registry.list_files, Registry.categories *)

CategoryArgs == {s_python, s_global}

\* [e for e in self.entries if e.get("category") == category]
FilterCategory(es, category) ==
    SelectSeq(es, LAMBDA e : Get(e, "category", None) = category)

list_files(es, category) ==
    IF category # None /\ category[1] # <<>>
    THEN FilterCategory(es, category[1])
    ELSE es

\* sorted(S) for a set of strings
RECURSIVE SortedStrs(_)
SortedStrs(S) ==
    IF S = {} THEN <<>>
    ELSE LET m == CHOOSE x \in S : \A y \in S : y = x \/ StrLess(x, y)
         IN  <<m>> \o SortedStrs(S \ {m})

categories(es) == SortedStrs({Get(es[i], "category", <<>>) : i \in 1..Len(es)})

ListFiles(category) ==
    /\ res' = [op |-> "list_files", category |-> category, outcome |-> "ok",
               out |-> list_files(entries, category)]
    /\ UNCHANGED <<entries, _repo_path, _last_pull, now, ld, obs>>

CategoriesOp ==
    /\ res' = [op |-> "categories", outcome |-> "ok", out |-> categories(entries)]
    /\ UNCHANGED <<entries, _repo_path, _last_pull, now, ld, obs>>

-----------------------------------------------------------------------------
(* Registry.search, _score_entry, _build_searchable *)

\* [x.lower() for x in xs]
LowerAll(xs) == [i \in 1..Len(xs) |-> Lower(xs[i])]

_build_searchable(entry) ==
    <<Lower(Get(entry, "title", <<>>)), Lower(Get(entry, "subtitle", <<>>))>>
    \o LowerAll(Get(entry, "tags", <<>>))
    \o LowerAll(Get(entry, "concepts", <<>>))
    \o LowerAll(Get(entry, "keywords", <<>>))
    \o <<Lower(Get(entry, "category", <<>>))>>

\* token in field_text, and the two-way containment a fuzzier match would use
TokenMatchesEitherWay(token, field_text) ==
    Contains(token, field_text) \/ Contains(field_text, token)

TokenMatches(token, field_text) == Contains(token, field_text)

\* the inner loop: 1 at the first field the token is in (break), else 0
RECURSIVE TokenScore(_, _, _)
TokenScore(token, searchable, k) ==
    IF k > Len(searchable) THEN 0
    ELSE IF TokenMatches(token, searchable[k]) THEN 1
    ELSE TokenScore(token, searchable, k + 1)

RECURSIVE ScoreFrom(_, _, _)
ScoreFrom(searchable, tokens, t) ==
    IF t > Len(tokens) THEN 0
    ELSE TokenScore(tokens[t], searchable, 1) + ScoreFrom(searchable, tokens, t + 1)

_score_entry(entry, tokens) == ScoreFrom(_build_searchable(entry), tokens, 1)

\* the loop over self.entries: the (score, entry) pairs appended to scored
RECURSIVE Scored(_, _, _, _)
Scored(es, i, tokens, category) ==
    IF i > Len(es) THEN <<>>
    ELSE IF /\ category # None
            /\ category[1] # <<>>
            /\ Get(es[i], "category", None) # category[1]
         THEN Scored(es, i + 1, tokens, category)
         ELSE LET score == _score_entry(es[i], tokens)
              IN  (IF score > 0 THEN <<[score |-> score, entry |-> es[i]]>> ELSE <<>>)
                  \o Scored(es, i + 1, tokens, category)

\* scored.sort(key=score, reverse=True): stable, equal scores keep their order
RECURSIVE InsertDesc(_, _)
InsertDesc(sorted, pair) ==
    IF sorted = <<>> THEN <<pair>>
    ELSE IF Head(sorted).score >= pair.score
         THEN <<Head(sorted)>> \o InsertDesc(Tail(sorted), pair)
         ELSE <<pair>> \o sorted

RECURSIVE SortDesc(_, _)
SortDesc(scored, k) ==
    IF k = 0 THEN <<>> ELSE InsertDesc(SortDesc(scored, k - 1), scored[k])

\* scored[:limit]
Truncate(scored, limit) == SliceTo(scored, limit)

search(es, query, category, limit) ==
    LET tokens == Split(Lower(query))
    IN  IF tokens = <<>> THEN [scored |-> <<>>, out |-> <<>>]
        ELSE LET scored == Scored(es, 1, tokens, category)
                 top == Truncate(SortDesc(scored, Len(scored)), limit)
             IN  [scored |-> scored,
                  out |-> [i \in 1..Len(top) |-> top[i].entry]]

q_two == s_Python \o <<" "," ">> \o <<"I","O">>

Queries == {<<>>, <<" "," ">>, s_io, s_ioerror, q_two}
SearchCategories == {None, Some(s_python)}
Limits == {-1, 0, 1, 10}

Search(query, category, limit) ==
    LET r == search(entries, query, category, limit)
    IN  /\ res' = [op |-> "search", query |-> query, category |-> category,
                   limit |-> limit, outcome |-> "ok",
                   scored |-> r.scored, out |-> r.out]
        /\ UNCHANGED <<entries, _repo_path, _last_pull, now, ld, obs>>

-----------------------------------------------------------------------------
(* Registry.learning_path *)

\* by_file = {e["file"]: e for e in self.entries}: a later entry overwrites
by_file(es, f) ==
    es[CHOOSE i \in 1..Len(es) :
          /\ es[i].file = f
          /\ \A j \in (i+1)..Len(es) : es[j].file # f]

include_cats(languages) ==
    {Lower(languages[i]) : i \in 1..Len(languages)} \cup {s_global, s_project_files}

\* the files of the entries whose lower-cased category is included
relevant(es, languages) ==
    LET cats == include_cats(languages)
    IN  {es[i].file : i \in {k \in 1..Len(es) :
            Lower(Get(es[k], "category", <<>>)) \in cats}}

\* f"{cat}/{ref}" if "/" not in ref else ref, cat the part of f before its "/"
full_ref(f, ref) ==
    IF HasSlash(ref) THEN ref
    ELSE (IF HasSlash(f) THEN BeforeSlash(f) ELSE <<>>) \o <<"/">> \o ref

\* referenced_by[g]: the refs of relevant files that resolve to g
referenced_by(es, rel, g) ==
    Cardinality(UNION {
        LET refs == Get(by_file(es, f), "refs", <<>>)
        IN  {<<f, k>> : k \in {n \in 1..Len(refs) : full_ref(f, refs[n]) = g}}
        : f \in rel})

\* ref_score * 3 + rule_count + banned_count + has_examples
score_of(es, rel, f) ==
    LET entry == by_file(es, f)
    IN  referenced_by(es, rel, f) * 3
        + Len(Get(entry, "rules", <<>>))
        + Len(Get(entry, "banned", <<>>))
        + (IF Get(entry, "has_examples", FALSE) THEN 1 ELSE 0)

MaxOf(S) == CHOOSE m \in S : \A x \in S : x <= m

\* the layer index (0-based) of a score.  ratio = s / max_score is the
\* correctly rounded quotient, so ratio >= 0.6 exactly when 10 s >= 6 max_score
\* and ratio >= 0.3 exactly when 10 s >= 3 max_score.  With s // max_score in
\* its place only the top score would leave the last layer.
LayerOfIntDiv(s, max_score) ==
    IF max_score > 0 /\ s = max_score THEN 0 ELSE 3

LayerOf(s, max_score) ==
    IF max_score > 0 /\ 10 * s >= 6 * max_score THEN 0
    ELSE IF max_score > 0 /\ 10 * s >= 3 * max_score THEN 1
    ELSE IF max_score > 0 /\ s > 0 THEN 2
    ELSE 3

\* sorted(layer, key=file) for a layer given as its set of files
SortLayer(es, files) ==
    LET names == SortedStrs(files)
    IN  [i \in 1..Len(names) |-> by_file(es, names[i])]

\* the comprehension that drops the empty layers, keeping all four instead
KeepAllLayers(all) == all

DropEmpty(all) == SelectSeq(all, LAMBDA layer : layer # <<>>)

\* scores: the (file, score) pairs of the relevant files named in names[i..]
RECURSIVE ScoreTable(_, _, _, _)
ScoreTable(es, rel, names, i) ==
    IF i > Len(names) THEN <<>>
    ELSE <<[file |-> names[i], score |-> score_of(es, rel, names[i])]>>
         \o ScoreTable(es, rel, names, i + 1)

\* the loop over sorted_files: the files appended to layers[n].  The order in
\* which sorted() leaves files of equal score does not reach the result: each
\* layer is sorted by file afterwards, and max_score is the greatest score.
Bucket(scores, max_score, n) ==
    {scores[k].file : k \in {i \in 1..Len(scores) :
        LayerOf(scores[i].score, max_score) = n}}

\* the four layers, empty ones removed, each sorted by file
Layers(es, languages) ==
    LET rel == relevant(es, languages)
        scores == ScoreTable(es, rel, SortedStrs(rel), 1)
        max_score == MaxOf({scores[i].score : i \in 1..Len(scores)})
    IN  IF rel = {} THEN <<>>
        ELSE DropEmpty(<<SortLayer(es, Bucket(scores, max_score, 0)),
                         SortLayer(es, Bucket(scores, max_score, 1)),
                         SortLayer(es, Bucket(scores, max_score, 2)),
                         SortLayer(es, Bucket(scores, max_score, 3))>>)

\* the last three lines: the layer a phase in range names, else all layers
SelectPhase(layers, phase) ==
    IF phase # None /\ 1 <= phase[1] /\ phase[1] <= Len(layers)
    THEN [outcome |-> "ok", out |-> <<layers[phase[1]]>>]
    ELSE [outcome |-> "ok", out |-> layers]

learning_path(es, languages, phase) == SelectPhase(Layers(es, languages), phase)

LanguageLists == {<<>>, <<s_python>>, <<s_rust>>, <<s_Python, s_rust>>}
Phases == {None, Some(0), Some(1), Some(2), Some(5)}

LearningPath(languages, phase) ==
    LET r == learning_path(entries, languages, phase)
    IN  /\ res' = [op |-> "learning_path", languages |-> languages,
                   phase |-> phase, outcome |-> r.outcome, out |-> r.out]
        /\ UNCHANGED <<entries, _repo_path, _last_pull, now, ld, obs>>

-----------------------------------------------------------------------------
(* server.py: _ensure_loaded and the tools *)

_PULL_TTL == 3600

CACHE_DIR == "Rules"

\* what the Registry class defines
RegistryAttrs ==
    {"entries", "load", "search", "list_files", "categories", "learning_path"}

\* the world a call meets: whether git clone/pull succeeds, and register.jsonl
FullSource == <<LineOf(Doc_pc), LineOf(Doc_pa), LineOf(Doc_gx), LineOf(Doc_rs)>>
Disks == {None, Some(FullSource), Some(ExampleSource), Some(BrokenSource)}
Envs == [git : BOOLEAN, disk : Disks]

\* the condition of the if
Stale(rp, lp, t) == rp = None \/ (t - lp) > _PULL_TTL

\* _registry.load(_repo_path) against the file the world holds
LoadDisk(old, disk) ==
    IF disk = None THEN [entries |-> ResetEntries(old), err |-> -1]
    ELSE LoadRun(old, disk[1])

\* _ensure_loaded: the globals and the registry when it returns or raises
ensure_loaded(rp, lp, es, t, env) ==
    IF ~Stale(rp, lp, t)
    THEN [repo_path |-> rp, last_pull |-> lp, entries |-> es,
          raised |-> "", reload |-> FALSE]
    ELSE IF ~env.git
    THEN [repo_path |-> rp, last_pull |-> lp, entries |-> es,
          raised |-> "GitCommandError", reload |-> TRUE]
    ELSE LET r == LoadDisk(es, env.disk)
         IN  IF r.err # 0
             THEN [repo_path |-> Some(CACHE_DIR), last_pull |-> lp,
                   entries |-> r.entries,
                   raised |-> IF r.err < 0 THEN "FileNotFoundError"
                              ELSE "JSONDecodeError",
                   reload |-> TRUE]
             ELSE [repo_path |-> Some(CACHE_DIR), last_pull |-> t,
                   entries |-> r.entries, raised |-> "", reload |-> TRUE]

\* the worlds that can make a difference to a call made now
EnvsNow == IF Stale(_repo_path, _last_pull, now) THEN Envs
           ELSE {[git |-> TRUE, disk |-> None]}

\* what a tool call leaves in the globals and the registry
Globals(e, env) ==
    /\ _repo_path' = e.repo_path
    /\ _last_pull' = e.last_pull
    /\ entries' = e.entries
    /\ UNCHANGED <<now, ld, obs>>

\* the call as its caller saw it: path and since are what it found
Call(tool, e, env) ==
    [op |-> tool, raised |-> e.raised, reload |-> e.reload,
     path |-> _repo_path, since |-> now - _last_pull,
     disk |-> IF e.reload /\ env.git THEN env.disk ELSE None]

\* help(): the counts of the overview
Help ==
    \E env \in EnvsNow :
        LET e == ensure_loaded(_repo_path, _last_pull, entries, now, env)
        IN  /\ Globals(e, env)
            /\ res' = [call |-> Call("help", e, env),
                       op |-> "help",
                       outcome |-> IF e.raised = "" THEN "ok" ELSE e.raised,
                       out |-> IF e.raised = "" THEN
                                   [total_rules |-> Len(e.entries),
                                    cats |-> categories(e.entries)]
                               ELSE <<>>]

\* get_learning_path: the phase headings and the title line
render_path(layers, phase) ==
    LET truthy == phase # None /\ phase[1] # 0
    IN  IF layers = <<>> THEN [text |-> "No rules found for the given languages."]
        ELSE [text |-> "Learning Path",
              sections |-> [i \in 1..Len(layers) |->
                  [phase_num |-> IF truthy THEN phase[1] ELSE i,
                   files |-> [k \in 1..Len(layers[i]) |-> layers[i][k].file]]],
              total_phases |-> IF truthy THEN phase[1] ELSE Len(layers)]

GetLearningPath(languages, phase) ==
    \E env \in EnvsNow :
        LET e == ensure_loaded(_repo_path, _last_pull, entries, now, env)
            r == learning_path(e.entries, languages, phase)
        IN  /\ Globals(e, env)
            /\ res' = [call |-> Call("get_learning_path", e, env),
                       op |-> "get_learning_path",
                       languages |-> languages, phase |-> phase,
                       outcome |-> IF e.raised = "" THEN r.outcome ELSE e.raised,
                       out |-> IF e.raised = "" THEN render_path(r.out, phase)
                               ELSE <<>>]

\* Registry.find_by_file as documented: the entry with that file, or None
find_by_file(es, file) ==
    IF \E i \in 1..Len(es) : es[i].file = file
    THEN Some(es[CHOOSE i \in 1..Len(es) : es[i].file = file])
    ELSE None

EdgeKinds == <<"requires", "required_by", "feeds", "fed_by", "related">>

\* the loop over labels: one (kind, target, title) per target of each kind
RECURSIVE EdgeLines(_, _, _)
EdgeLines(es, edges, k) ==
    IF k > Len(EdgeKinds) THEN <<>>
    ELSE LET targets == Get(edges, EdgeKinds[k], <<>>)
         IN  [i \in 1..Len(targets) |->
                 LET target_entry == find_by_file(es, targets[i])
                 IN  [kind |-> EdgeKinds[k], file |-> targets[i],
                      title |-> IF target_entry # None
                                THEN Get(target_entry[1], "title", <<>>)
                                ELSE <<"(","n","o","t"," ","f","o","u","n","d",")">>]]
             \o EdgeLines(es, edges, k + 1)

\* get_related after _ensure_loaded: attribute lookup on the Registry first
get_related(es, file) ==
    IF "find_by_file" \notin RegistryAttrs
    THEN [outcome |-> "AttributeError", out |-> <<>>]
    ELSE LET entry == find_by_file(es, file)
         IN  IF entry = None THEN [outcome |-> "File not found", out |-> <<>>]
             ELSE LET edges == Get(entry[1], "edges", [none |-> <<>>])
                      lines == EdgeLines(es, edges, 1)
                  IN  IF lines = <<>> THEN [outcome |-> "No edges found", out |-> <<>>]
                      ELSE [outcome |-> "ok", out |-> lines]

GetRelated(file) ==
    \E env \in EnvsNow :
        LET e == ensure_loaded(_repo_path, _last_pull, entries, now, env)
            r == get_related(e.entries, file)
        IN  /\ Globals(e, env)
            /\ res' = [call |-> Call("get_related", e, env),
                       op |-> "get_related", file |-> file,
                       outcome |-> IF e.raised = "" THEN r.outcome ELSE e.raised,
                       out |-> IF e.raised = "" THEN r.out ELSE <<>>]

\* time.monotonic() moves on between calls
Ticks == {1800, 3601}

Tick(d) ==
    /\ now + d <= MaxNow
    /\ now' = now + d
    /\ UNCHANGED <<entries, _repo_path, _last_pull, res, ld, obs>>

-----------------------------------------------------------------------------
(* Registry.load running on one thread while other threads read.  The       *)
(* interpreter may switch threads between any two statements of load, so    *)
(* the loader takes one statement per step: the assignment of the empty     *)
(* list, then one append (or the raise) per line.                           *)

ConcSources ==
    SeqsUpTo(Lines, 1) \cup {ExampleSource, BrokenSource, <<LineOf(Doc_pb), LineOf(Doc_pa)>>}

\* self.entries = [] and the open of the file
ConcLoadStart(src) ==
    /\ ld.pc # "loop"
    /\ entries' = ResetEntries(entries)
    /\ ld' = [pc |-> "loop", lines |-> src, i |-> 1, old |-> entries]
    /\ obs' = [seen |-> FALSE]
    /\ UNCHANGED <<_repo_path, _last_pull, now, res>>

\* one iteration of the for loop
ConcLoadLine ==
    /\ ld.pc = "loop"
    /\ ld.i <= Len(ld.lines)
    /\ LET r == LoadLine(entries, ld.lines[ld.i])
       IN  /\ entries' = r.entries
           /\ ld' = IF r.raised THEN [ld EXCEPT !.pc = "raised"]
                    ELSE [ld EXCEPT !.i = ld.i + 1]
    /\ UNCHANGED <<_repo_path, _last_pull, now, res, obs>>

\* the loop is exhausted: load returns
ConcLoadReturn ==
    /\ ld.pc = "loop"
    /\ ld.i > Len(ld.lines)
    /\ ld' = [ld EXCEPT !.pc = "returned"]
    /\ UNCHANGED <<entries, _repo_path, _last_pull, now, res, obs>>

\* a reader thread runs one of the read operations on self.entries as it is now
ConcRead(op) ==
    /\ obs' = [seen |-> TRUE, op |-> op, during |-> ld.pc,
               records |-> list_files(entries, None),
               out |-> CASE op = "list_files" -> list_files(entries, None)
                         [] op = "categories" -> categories(entries)
                         [] op = "search" -> search(entries, s_io, None, 10).out
                         [] op = "learning_path" ->
                                learning_path(entries, <<s_python>>, None).out]
    /\ UNCHANGED <<entries, _repo_path, _last_pull, now, res, ld>>

ReadOps == {"list_files", "categories", "search", "learning_path"}

-----------------------------------------------------------------------------
(* The Registry as one caller drives it *)

Init ==
    /\ entries = <<>>
    /\ _repo_path = None
    /\ _last_pull = 0
    /\ now = BootAge
    /\ res = [op |-> "none", outcome |-> "ok"]
    /\ ld = [pc |-> "idle"]
    /\ obs = [seen |-> FALSE]

Next ==
    \/ \E src \in Sources : Load(src)
    \/ LoadMissing
    \/ \E c \in {None, Some(<<>>)} \cup {Some(x) : x \in CategoryArgs} : ListFiles(c)
    \/ CategoriesOp

Spec == Init /\ [][Next]_vars

-----------------------------------------------------------------------------
(* search over the registries of up to MaxRecs records *)

InitWith(registries) ==
    /\ entries \in registries
    /\ _repo_path = None
    /\ _last_pull = 0
    /\ now = BootAge
    /\ res = [op |-> "none", outcome |-> "ok"]
    /\ ld = [pc |-> "idle"]
    /\ obs = [seen |-> FALSE]

\* the three records of the learning-path example; scores 5, 2, 1, 0 for
\* python + rust, one entry in each of the four layers; equal search scores
ExampleRegistry == <<Doc_pa, Doc_pb, Doc_gx>>
FourLayerRegistry == <<Doc_pb, Doc_rs, Doc_nc, Doc_pf, Doc_pc>>
TiesRegistry == <<Doc_pb, Doc_pc, Doc_nc, Doc_pa>>

Registries ==
    SeqsUpTo(Docs, MaxRecs) \cup {ExampleRegistry, FourLayerRegistry, TiesRegistry}

InitSearch == InitWith(Registries)

NextSearch ==
    \E q \in Queries, c \in SearchCategories, l \in Limits : Search(q, c, l)

SpecSearch == InitSearch /\ [][NextSearch]_vars

-----------------------------------------------------------------------------
(* learning_path over the same registries *)

InitPath == InitWith(Registries)

NextPath == \E ls \in LanguageLists, p \in Phases : LearningPath(ls, p)

SpecPath == InitPath /\ [][NextPath]_vars

-----------------------------------------------------------------------------
(* The server: tool calls as the clock advances *)

NextServer ==
    \/ \E d \in Ticks : Tick(d)
    \/ Help
    \/ \E ls \in {<<s_python>>, <<s_rust>>}, p \in {None, Some(0), Some(1), Some(5)} :
          GetLearningPath(ls, p)
    \/ \E f \in {f_pc, f_pa, f_naming} : GetRelated(f)

SpecServer == Init /\ [][NextServer]_vars

-----------------------------------------------------------------------------
(* A loader thread and reader threads *)

NextConc ==
    \/ \E src \in ConcSources : ConcLoadStart(src)
    \/ ConcLoadLine
    \/ ConcLoadReturn
    \/ \E op \in ReadOps : ConcRead(op)

SpecConc == Init /\ [][NextConc]_vars

-----------------------------------------------------------------------------
(* What the specification says of a register file and of a path *)

NonBlank(line) == \E k \in 1..Len(line) : line[k].t # "ws"

\* every non-blank line holds one JSON object and nothing else but whitespace
WellFormed(src) ==
    \A i \in 1..Len(src) :
        NonBlank(src[i]) =>
            /\ Cardinality({k \in 1..Len(src[i]) : src[i][k].t # "ws"}) = 1
            /\ \E k \in 1..Len(src[i]) : src[i][k].t = "obj"

\* the records of the non-blank lines, in line order
RecordsFrom(src) ==
    LET nb == SelectSeq(src, NonBlank)
    IN  [i \in 1..Len(nb) |-> (CHOOSE p \in Range(nb[i]) : p.t = "obj").v]

UniqueFiles(es) ==
    \A i, j \in 1..Len(es) : es[i].file = es[j].file => i = j

\* the records a languages list selects
Selected(es, languages) ==
    {e \in Range(es) :
        \/ Lower(Get(e, "category", <<>>)) \in {s_global, s_project_files}
        \/ \E i \in 1..Len(languages) :
              Lower(Get(e, "category", <<>>)) = Lower(languages[i])}

\* the members of the layers of a path, and their places
Placed(layers) ==
    UNION {{<<n, k>> : k \in 1..Len(layers[n])} : n \in 1..Len(layers)}

FileAscending(layer) ==
    \A k \in 1..(Len(layer) - 1) : StrLess(layer[k].file, layer[k + 1].file)

-----------------------------------------------------------------------------
(* C1: while a load replaces contents A by new contents B, every read sees  *)
(* the record list equal to A in full or to B in full, never an empty or    *)
(* partly filled list.                                                      *)

C1_ReadsSeeWholeSnapshot ==
    (obs.seen /\ ld.pc # "idle" /\ WellFormed(ld.lines)) =>
        \/ obs.records = ld.old
        \/ obs.records = RecordsFrom(ld.lines)

(* C2: a load that fails on a malformed line leaves the entries exactly as  *)
(* they were before that load began.                                        *)

C2_FailedLoadKeepsSnapshot ==
    [][(res'.op = "load" /\ res'.outcome = "JSONDecodeError") =>
           entries' = entries]_vars

(* C3: after a successful load the entries are exactly the records of the   *)
(* non-blank lines of the source, in line order, whatever was there before; *)
(* loading the same source again leaves the same entries.                   *)

C3_LoadReplacesAll ==
    /\ [](res.op = "load" /\ res.outcome = "ok" =>
             entries = RecordsFrom(res.source))
    /\ [][(/\ res.op = "load" /\ res.outcome = "ok"
           /\ res'.op = "load" /\ res'.outcome = "ok"
           /\ res'.source = res.source) => entries' = entries]_vars

C3_Witness ==
    /\ res.op = "load" /\ res.outcome = "ok"
    /\ res.prior > 0
    /\ Len(entries) >= 2
    /\ Len(res.source) > Len(entries)

(* C4: with phase omitted, learning_path gives one layer per distinct      *)
(* value of the selected records' layer field (4 when absent), in ascending *)
(* layer number, each layer in ascending file order.                        *)

\* sorted(records, key=file) of a sequence of records
RECURSIVE InsertByFile(_, _)
InsertByFile(sorted, e) ==
    IF sorted = <<>> THEN <<e>>
    ELSE IF StrLess(e.file, Head(sorted).file) THEN <<e>> \o sorted
    ELSE <<Head(sorted)>> \o InsertByFile(Tail(sorted), e)

RECURSIVE SortByFile(_, _)
SortByFile(es, k) ==
    IF k = 0 THEN <<>> ELSE InsertByFile(SortByFile(es, k - 1), es[k])

LayerField(e) == Get(e, "layer", 4)

CuratedLayers(es, languages) ==
    LET sel == SelectSeq(es, LAMBDA e : e \in Selected(es, languages))
        group(n) == SelectSeq(sel, LAMBDA e : LayerField(e) = n)
        sorted(n) == SortByFile(group(n), Len(group(n)))
    IN  SelectSeq([n \in 1..6 |-> sorted(n)], LAMBDA layer : layer # <<>>)

C4_LayersFollowLayerField ==
    (res.op = "learning_path" /\ res.phase = None) =>
        res.out = CuratedLayers(entries, res.languages)

(* C4 as the code has it: the layers follow the share of the top score.  A  *)
(* selected record scores 3 for every ref of a selected record that names   *)
(* it, 1 for each of its rules and banned markers and 1 for has_examples;   *)
(* its class is 0 when the score is at least 0.6 of the greatest score, 1   *)
(* when at least 0.3, 2 when positive, else 3 (all 3 when the greatest is   *)
(* 0).  One layer per class present, classes ascending, files ascending.    *)

RefTarget(e, ref) ==
    IF \E k \in 1..Len(ref) : ref[k] = "/" THEN ref
    ELSE LET f == e.file
             cut == {k \in 1..Len(f) : f[k] = "/"}
         IN  (IF cut = {} THEN <<>>
              ELSE SubSeq(f, 1, (CHOOSE k \in cut : \A m \in cut : k <= m) - 1))
             \o <<"/">> \o ref

Weight(sel, g) ==
    3 * Cardinality({p \in UNION {{<<e, k>> : k \in 1..Len(Get(e, "refs", <<>>))}
                                    : e \in sel} :
            RefTarget(p[1], Get(p[1], "refs", <<>>)[p[2]]) = g.file})
    + Len(Get(g, "rules", <<>>)) + Len(Get(g, "banned", <<>>))
    + (IF "has_examples" \in DOMAIN g /\ g.has_examples THEN 1 ELSE 0)

ClassOf(sel, g) ==
    LET w == Weight(sel, g)
        top == CHOOSE m \in {Weight(sel, e) : e \in sel} :
                   \A e \in sel : Weight(sel, e) <= m
    IN  IF top = 0 \/ w = 0 THEN 3
        ELSE IF 5 * w >= 3 * top THEN 0
        ELSE IF 10 * w >= 3 * top THEN 1
        ELSE 2

C4_LayersFollowScoreShare ==
    (res.op = "learning_path" /\ res.phase = None /\ UniqueFiles(entries)) =>
        LET sel == Selected(entries, res.languages)
            out == res.out
        IN  /\ \A p \in Placed(out) : out[p[1]][p[2]] \in sel
            /\ \A e \in sel : \E p \in Placed(out) : out[p[1]][p[2]] = e
            /\ \A n \in 1..Len(out) : FileAscending(out[n])
            /\ \A p, q \in Placed(out) :
                   p[1] < q[1] <=>
                       ClassOf(sel, out[p[1]][p[2]]) < ClassOf(sel, out[q[1]][q[2]])
            /\ (entries = ExampleRegistry /\ res.languages = <<s_python>>) =>
                   out = << <<Doc_gx, Doc_pa, Doc_pb>> >>

C4_Witness ==
    /\ res.op = "learning_path" /\ res.phase = None
    /\ entries = ExampleRegistry
    /\ res.languages = <<s_python>>
    /\ res.out = << <<Doc_gx, Doc_pa, Doc_pb>> >>

(* C5: a phase given outside [1, number of layers], with a record selected, *)
(* ends in PhaseOutOfRange and returns no layers.                           *)

C5_PhaseOutOfRangeIsError ==
    (/\ res.op = "learning_path"
     /\ res.phase # None
     /\ Selected(entries, res.languages) # {}
     /\ (res.phase[1] < 1
         \/ res.phase[1] > Len(learning_path(entries, res.languages, None).out)))
    => (res.outcome = "PhaseOutOfRange" /\ res.out = <<>>)

(* C6: the score of a record is the sum, over every query token and every  *)
(* searchable field value, of the field's weight (file 3, title 3, subtitle *)
(* 1, tag 2, concept 2, keyword 1, category 1) whenever the token is in the *)
(* lower-cased field text or the field text is in the token; so tag "io"    *)
(* answers query "ioerror" and tag "ioerror" answers query "io".            *)

\* the weighted, lower-cased field values a record has
WeightedFields(e) ==
    LET one(k, w) == IF k \in DOMAIN e /\ e[k] # <<>>
                     THEN {[key |-> k, n |-> 0, w |-> w, text |-> Lower(e[k])]}
                     ELSE {}
        each(k, w) == IF k \in DOMAIN e
                      THEN {[key |-> k, n |-> i, w |-> w, text |-> Lower(e[k][i])]
                               : i \in 1..Len(e[k])}
                      ELSE {}
    IN  one("file", 3) \cup one("title", 3) \cup one("subtitle", 1)
        \cup each("tags", 2) \cup each("concepts", 2) \cup each("keywords", 1)
        \cup one("category", 1)

RECURSIVE SumWeights(_)
SumWeights(hits) ==
    IF hits = {} THEN 0
    ELSE LET h == CHOOSE x \in hits : TRUE
         IN  h[2].w + SumWeights(hits \ {h})

WeightedScore(e, tokens) ==
    SumWeights({h \in (1..Len(tokens)) \X WeightedFields(e) :
                   \/ Contains(tokens[h[1]], h[2].text)
                   \/ Contains(h[2].text, tokens[h[1]])})

\* the entries a search looks at: all, or those of the category given
Searched(es, category) ==
    IF category = None \/ category[1] = <<>> THEN es
    ELSE SelectSeq(es, LAMBDA e : "category" \in DOMAIN e /\ e.category = category[1])

Returned(e) == \E k \in 1..Len(res.out) : res.out[k] = e

HasTag(e, tag) == \E k \in 1..Len(Get(e, "tags", <<>>)) : e.tags[k] = tag

C6_WeightedTwoWayScore ==
    (res.op = "search" /\ Split(Lower(res.query)) # <<>>) =>
        LET tokens == Split(Lower(res.query))
            seen == Searched(entries, res.category)
        IN  /\ \A i \in 1..Len(seen) :
                   /\ WeightedScore(seen[i], tokens) > 0 <=>
                          \E k \in 1..Len(res.scored) : res.scored[k].entry = seen[i]
                   /\ \A k \in 1..Len(res.scored) :
                          res.scored[k].entry = seen[i] =>
                              res.scored[k].score = WeightedScore(seen[i], tokens)
            /\ (res.limit >= Len(entries) /\ res.query \in {s_io, s_ioerror}) =>
                   \A i \in 1..Len(seen) :
                       (HasTag(seen[i], s_io) \/ HasTag(seen[i], s_ioerror)) =>
                           Returned(seen[i])

(* C6 as the code has it: the score is the number of query tokens that are *)
(* in at least one of the lower-cased title, subtitle, tags, concepts,      *)
(* keywords and category (the file path is not searched, and a field text   *)
(* inside a longer token does not match); tag "ioerror" answers query "io", *)
(* tag "io" does not answer query "ioerror".                                *)

FieldTexts(e) ==
    {Lower(e[k]) : k \in {"title", "subtitle", "category"} \cap DOMAIN e}
    \cup UNION {{Lower(e[k][i]) : i \in 1..Len(e[k])}
                  : k \in {"tags", "concepts", "keywords"} \cap DOMAIN e}

MatchCount(e, tokens) ==
    Cardinality({t \in 1..Len(tokens) :
                    \E x \in FieldTexts(e) : Contains(tokens[t], x)})

C6_ScoreCountsMatchingTokens ==
    res.op = "search" =>
        LET tokens == Split(Lower(res.query))
            seen == Searched(entries, res.category)
            hits == SelectSeq(seen, LAMBDA e : MatchCount(e, tokens) > 0)
        IN  /\ res.scored = [k \in 1..Len(hits) |->
                                [score |-> MatchCount(hits[k], tokens),
                                 entry |-> hits[k]]]
            /\ \A k \in 1..Len(res.out) : MatchCount(res.out[k], tokens) > 0
            /\ (res.query = s_io /\ res.limit >= Len(entries)) =>
                   \A i \in 1..Len(seen) :
                       HasTag(seen[i], s_ioerror) => Returned(seen[i])
            /\ res.query = s_ioerror => ~Returned(Doc_pa)

C6_Witness ==
    /\ res.op = "search" /\ res.query = q_two
    /\ \E k \in 1..Len(res.scored) : res.scored[k].score = 2
    /\ \E k \in 1..Len(res.scored) : res.scored[k].score = 1
    /\ \E i \in 1..Len(entries) : ~Returned(entries[i])

(* C7: whatever the query, category and limit, search returns at most      *)
(* max(limit, 0) records; a limit of 0 or less gives an empty result.       *)

C7_LengthAtMostLimit ==
    res.op = "search" =>
        Len(res.out) <= (IF res.limit > 0 THEN res.limit ELSE 0)

(* C8: for a file with a record, get_related completes and reports every   *)
(* target of its requires, required_by, feeds, fed_by and related edges,    *)
(* with the target's title or "(not found)"; a file with no record gives    *)
(* the not-found outcome.                                                   *)

C8_RelatedResolvesEdges ==
    (res.op = "get_related" /\ res.call.raised = "") =>
        IF \E i \in 1..Len(entries) : entries[i].file = res.file
        THEN LET entry == entries[CHOOSE i \in 1..Len(entries) :
                                     entries[i].file = res.file]
                 lines == EdgeLines(entries, Get(entry, "edges", [none |-> <<>>]), 1)
             IN  /\ res.outcome \in {"ok", "No edges found"}
                 /\ res.out = lines
        ELSE res.outcome = "File not found"

(* C9: whenever _ensure_loaded returns normally the registry holds the     *)
(* complete record list of a load that succeeded, and a reload is attempted *)
(* only when no repo path is known or more than _PULL_TTL has passed since  *)
(* the last successful load.                                                *)

C9_ReturnsWithCompleteRegistry ==
    ("call" \in DOMAIN res) =>
        /\ res.call.raised = "" =>
               \E d \in Disks :
                   d # None /\ WellFormed(d[1]) /\ entries = RecordsFrom(d[1])
        /\ res.call.reload =>
               (res.call.path = None \/ res.call.since > _PULL_TTL)

(* C10: for a Registry with unique files, learning_path with phase omitted *)
(* returns a partition of the selected records into at most four non-empty  *)
(* layers; with phase p in [1, layer count] it returns layer p of that      *)
(* partition alone.                                                         *)

C10_LayersPartitionSelected ==
    (res.op = "learning_path" /\ UniqueFiles(entries)) =>
        LET sel == Selected(entries, res.languages)
            all == learning_path(entries, res.languages, None).out
        IN  /\ res.phase = None =>
                   /\ \A e \in sel :
                          Cardinality({p \in Placed(res.out) :
                                          res.out[p[1]][p[2]] = e}) = 1
                   /\ \A p \in Placed(res.out) : res.out[p[1]][p[2]] \in sel
                   /\ \A n \in 1..Len(res.out) : res.out[n] # <<>>
                   /\ Len(res.out) <= 4
            /\ (res.phase # None /\ 1 <= res.phase[1] /\ res.phase[1] <= Len(all)) =>
                   res.out = <<all[res.phase[1]]>>

C10_Witness ==
    /\ res.op = "learning_path" /\ res.phase = None
    /\ UniqueFiles(entries)
    /\ Len(res.out) = 4
    /\ \E e \in Range(entries) : e \notin Selected(entries, res.languages)

=============================================================================
